---------------------------- MODULE Spec2Model ----------------------------
(***************************************************************************)
(* A model of pcdinh/sv: the revopy session manager and its async context  *)
(* managers (supervise / managed), the route handlers /c, /c1 and /c2, the *)
(* migration runner, the connection-manager registry and the pyformat      *)
(* query rewriter.                                                         *)
(*                                                                         *)
(* A coroutine runs without interruption between two awaits that suspend;  *)
(* every action below is one such stretch of one coroutine.                *)
(***************************************************************************)
EXTENDS Integers, Sequences, FiniteSets, TLC

\* ------------------------------------------------------------------ bounds
NReq == 2          \* number of requests (coroutines) that use the shared session
MaxEntries == 5    \* number of directory entries a migration directory is drawn from
MaxRuns == 3       \* number of migrate runs on one database
NCallers == 3      \* number of calls of ConnectionManagerRegistry.initialize
MaxPieces == 3     \* number of pieces (text or %(name)s) a query is made of
MaxParams == 2     \* number of keys of a params mapping
MaxFields == 2     \* number of fields of a row or of a where mapping
MaxRows == 2       \* number of rows a statement matches

\* --------------------------------------------------------------- constants
PoolMaxSize == 3   \* asyncpg.create_pool(max_size=3)

None == 0
Requests == 1..NReq
\* pool.acquire() wraps the connection in a fresh proxy for every acquirer: the
\* proxy a request acquires is named after the request.
Proxies == Requests

HandlerRoutes == {"c", "c1", "c2"}

VARIABLES
    session,   \* the module-level SessionManager (app.pg)
    proxy,     \* the pool's view of each connection proxy
    tx,        \* the state of the transaction opened on each proxy
    req,       \* the requests: position, locals, outcome, history
    load,      \* a call of load_changes: its arguments and its result
    mig,       \* the migration runner, its scripts and its database
    registry,  \* a ConnectionManagerRegistry and the callers of initialize
    pyf,       \* a call of pyformat_query_to_native: its arguments and its result
    sql,       \* a call of one of the query builders: its arguments and its result
    qry        \* a call of a query method of a session: the driver's answer, the result

sessVars == <<session, proxy, tx, req>>

otherVars == <<load, mig, registry, pyf, sql, qry>>

vars == <<session, proxy, tx, req, load, mig, registry, pyf, sql, qry>>

\* SessionManager.__init__
SessionInit ==
    [connection |-> None, transaction |-> None,
     isolation |-> "read_committed", readonly |-> FALSE, deferrable |-> FALSE]

\* The arguments supervise.__aenter__ and managed.__aenter__ pass to start().
FixedArgs == [isolation |-> "read_committed", readonly |-> FALSE, deferrable |-> FALSE]

ReqInit ==
    [pc |-> "idle", route |-> "sup", transactional |-> FALSE,
     args |-> FixedArgs,     \* the arguments of the start() call in flight
     exc |-> FALSE,          \* the with-block body raised (exc_type is set)
     relArg |-> None,        \* the proxy (or transaction) of the await in flight
     stage |-> 0,            \* 1: close() in the try, 2: close() in the except
     stray |-> FALSE,        \* a query of this request ran on a proxy it did not acquire
     acquired |-> None,      \* the proxy pool.acquire returned to this request
     openAtExit |-> FALSE,   \* __aexit__ found the connection open
     closedAtExit |-> FALSE, \* is_closed() answered True in __aexit__
     log |-> <<>>,           \* commit / rollback / release calls made by this request
     failed |-> FALSE,       \* an exception was raised while acquiring, in the
                             \* transaction or by a query
     status |-> 0,           \* the response's status code (handlers)
     raised |-> FALSE,       \* an exception left the operation
     watched |-> FALSE]      \* the history of this request is recorded

\* The history (stray .. raised) is recorded for one request, the watched
\* one, which may be any of them; of the others only what the code reads is kept.
Kept(rq) ==
    IF rq.watched THEN rq
    ELSE IF rq.pc = "done" THEN [ReqInit EXCEPT !.pc = "done"]
    ELSE [rq EXCEPT !.stray = FALSE, !.acquired = None, !.openAtExit = FALSE, !.closedAtExit = FALSE,
                    !.log = <<>>, !.failed = FALSE, !.status = 0, !.raised = FALSE]

\* No request has arrived; the history of request w will be recorded.
SessInit(w) ==
    /\ session = SessionInit
    /\ proxy = [p \in Proxies |-> [state |-> "unused", relCalls |-> 0]]
    /\ tx = [p \in Proxies |-> "none"]
    /\ req = [r \in Requests |-> [ReqInit EXCEPT !.watched = (r = w)]]

Held == {p \in Proxies : proxy[p].state = "held"}

IsHandler(rq) == rq.route \in HandlerRoutes

\* The operation returns normally: a handler answers 200.
Returned(rq) ==
    [rq EXCEPT !.pc = "done", !.status = IF IsHandler(rq) THEN 200 ELSE 0,
               !.relArg = None, !.stage = 0]

\* An exception leaves the with-block (or the call): the handlers' `except
\* Exception` turns it into a 500 response, other callers see it.
Propagated(rq) ==
    [rq EXCEPT !.pc = "done",
               !.status = IF IsHandler(rq) THEN 500 ELSE 0,
               !.raised = ~IsHandler(rq),
               !.relArg = None, !.stage = 0]

\* An __aexit__ that returns True: the body's exception is swallowed.
AfterExitSwallow(rq) == Returned(rq)

\* __aexit__ returned None or False: the body's exception, if any, goes on.
AfterExit(rq) == IF rq.exc THEN Propagated(rq) ELSE Returned(rq)

Cleared(s) == [s EXCEPT !.connection = None, !.transaction = None]


\* pool.release calls on a proxy are counted as 0, 1, or 2 for "more than once".
Counted(n) == IF n < 2 THEN n + 1 ELSE n

St(s, px, rq) == [session |-> s, proxy |-> px, rq |-> rq]

\* A method call on session.connection fails: the attribute is None
\* (AttributeError) or the proxy was released back to the pool (InterfaceError).
Unusable(s, px) == s.connection = None \/ px[s.connection].state # "held"

\* SessionManager.close(release=True), from its call to its first suspension.
\* pool.release(None) raises at once; releasing a proxy that was already released
\* returns at once; otherwise the coroutine waits for the pool.  A release that
\* raises inside the try (stage 1) is caught by `except BaseException`, which
\* calls close() again (stage 2); there it leaves __aexit__.
CloseFrom(rq, s, px, stage) ==
    LET arg == s.connection IN
    IF arg = None
    THEN St(s, px, Propagated(rq))
    ELSE LET px2 == IF req[arg].watched THEN [px EXCEPT ![arg].relCalls = Counted(@)] ELSE px
             rq2 == [rq EXCEPT !.log = Append(@, "release")]
         IN IF px[arg].state = "held"
            THEN St(s, px2, [rq2 EXCEPT !.pc = "release", !.relArg = arg, !.stage = stage])
            ELSE St(Cleared(s), px2, AfterExit(rq2))

\* The connection was found closed, and __aexit__ goes on as if it were open.
ClosedExitReleasing(rq, s, px) == CloseFrom(rq, s, px, 2)

\* The connection was found closed: `await self.session.close(release=False)`,
\* then `return False` (the body's exception goes on) or `raise InterfaceError`.
ClosedExit(rq, s, px) == St(Cleared(s), px, Propagated(rq))

\* supervise.__aexit__ / managed.__aexit__, from its call to its first suspension.
\* `closed` is the driver's answer to connection.is_closed().
ExitFrom(rq, s, px, closed) ==
    IF rq.exc
    THEN \* lines 58-72: an exception occurred in the context scope
         IF Unusable(s, px)
         THEN CloseFrom(rq, s, px, 2)
         ELSE IF closed
         THEN ClosedExit([rq EXCEPT !.closedAtExit = TRUE], s, px)
         ELSE LET rq2 == [rq EXCEPT !.openAtExit = TRUE] IN
              IF rq.transactional
              THEN IF s.transaction = None
                   THEN CloseFrom(rq2, s, px, 2)
                   ELSE St(s, px, [rq2 EXCEPT !.pc = "rollback", !.relArg = s.transaction])
              ELSE CloseFrom(rq2, s, px, 1)
    ELSE \* lines 73-86: everything is fine
         IF Unusable(s, px)
         THEN St(s, px, Propagated(rq))
         ELSE IF closed /\ rq.transactional
         THEN ClosedExit([rq EXCEPT !.closedAtExit = TRUE], s, px)
         ELSE LET rq2 == [rq EXCEPT !.openAtExit = ~closed, !.closedAtExit = closed] IN
              IF rq.transactional
              THEN IF s.transaction = None
                   THEN CloseFrom(rq2, s, px, 2)
                   ELSE St(s, px, [rq2 EXCEPT !.pc = "commit", !.relArg = s.transaction])
              ELSE CloseFrom(rq2, s, px, 1)

\* The with-block body, from where it (re)gains control to its next suspension:
\* it calls a query method of the session, finishes, or raises.
\* SessionManager.execute and the fetch methods read self.connection when called
\* and check that it is open before they await the driver.
BodyFrom(rq, s, px, choice, closed) ==
    CASE choice = "query" ->
           IF Unusable(s, px) \/ closed
           THEN ExitFrom([rq EXCEPT !.exc = TRUE, !.failed = TRUE], s, px, closed)
           ELSE St(s, px, [rq EXCEPT !.pc = "query",
                                     !.relArg = s.connection,
                                     !.stray = @ \/ s.connection # rq.acquired])
      [] choice = "end" -> ExitFrom(rq, s, px, closed)
      [] OTHER -> ExitFrom([rq EXCEPT !.exc = TRUE], s, px, closed)

BodyChoices == {"query", "end", "raise"}

Apply(r, n) ==
    /\ session' = n.session
    /\ proxy' = n.proxy
    /\ req' = [req EXCEPT ![r] = Kept(n.rq)]

\* ------------------------------------------------ SessionManager.start
\* Requests are numbered in their order of arrival.
Arrives(r) ==
    /\ req[r].pc = "idle"
    /\ \A q \in Requests : q < r => req[q].pc # "idle"

Put(r, rq) == [req EXCEPT ![r] = Kept(rq)]

\* SessionManager.start without its check of self.connection.
SessionStartNoGuard(r, rq) ==
    /\ req' = Put(r, [rq EXCEPT !.pc = "acquire"])
    /\ UNCHANGED <<session, proxy, tx>>

\* SessionManager.start, from its call to the await of pool.acquire: a session
\* that already holds a connection raises UserWarning.
SessionStart(r, rq) ==
    IF session.connection # None
    THEN /\ req' = Put(r, Propagated([rq EXCEPT !.failed = TRUE]))
         /\ UNCHANGED <<session, proxy, tx>>
    ELSE /\ req' = Put(r, [rq EXCEPT !.pc = "acquire"])
         /\ UNCHANGED <<session, proxy, tx>>

\* The arguments callers pass to start(isolation, readonly, deferrable).
StartArgs ==
    {FixedArgs, [isolation |-> "serializable", readonly |-> TRUE, deferrable |-> TRUE]}

\* `async with managed(request.app.pg)` in /c2, `async with supervise(session,
\* transactional)`, or a direct call of SessionManager.start: __aenter__ passes
\* fixed arguments to start, a direct caller its own.
Enter(r, routes) ==
    /\ Arrives(r)
    /\ \E route \in routes, t \in BOOLEAN, args \in StartArgs :
          /\ route = "c2" => ~t
          /\ route = "api" => ~t
          /\ route # "api" => args = FixedArgs
          /\ SessionStart(r, [req[r] EXCEPT !.route = route, !.transactional = t,
                                  !.args = args])

\* The transaction part of __aenter__.  supervise calls the coroutine function
\* start_transaction() without awaiting it, so its body never runs; managed
\* returns the session before it reaches that part.  Neither changes the session.
EnterTransaction(rq, s) == s

\* pool.acquire returns inside SessionManager.start: the session takes the proxy
\* and the arguments; __aenter__ goes on into the with-block body.
AcquireReturn(r) ==
    /\ req[r].pc = "acquire"
    /\ Cardinality(Held) < PoolMaxSize
    /\ LET px == [proxy EXCEPT ![r].state = "held"]
           s1 == [session EXCEPT !.connection = r,
                                 !.isolation = req[r].args.isolation,
                                 !.readonly = req[r].args.readonly,
                                 !.deferrable = req[r].args.deferrable]
           rq == [req[r] EXCEPT !.acquired = r, !.args = FixedArgs]
       IN IF rq.route = "api"
          THEN Apply(r, St(s1, px, [rq EXCEPT !.pc = "api_open"]))
          ELSE \E choice \in BodyChoices, closed \in BOOLEAN :
                  Apply(r, BodyFrom(rq, EnterTransaction(rq, s1), px, choice, closed))
    /\ UNCHANGED tx

\* pool.acquire raises: start raises, __aenter__ logs and re-raises.
AcquireRaise(r) ==
    /\ req[r].pc = "acquire"
    /\ req' = Put(r, Propagated([req[r] EXCEPT !.failed = TRUE, !.args = FixedArgs]))
    /\ UNCHANGED <<session, proxy, tx>>

\* The driver answers the query the body awaits.  Whether the connection is
\* still open when the coroutine goes on is the driver's to say.
QueryReturn(r) ==
    /\ req[r].pc = "query"
    /\ \E choice \in BodyChoices, closed \in BOOLEAN :
          Apply(r, BodyFrom(req[r], session, proxy, choice, closed))
    /\ UNCHANGED tx

QueryRaise(r) ==
    /\ req[r].pc = "query"
    /\ \E closed \in BOOLEAN :
          Apply(r, ExitFrom([req[r] EXCEPT !.exc = TRUE, !.failed = TRUE],
                            session, proxy, closed))
    /\ UNCHANGED tx

\* The await __aexit__ (or close) is suspended in returns.
\* pool.release returned inside close(): the session is cleared, whatever it
\* holds by now.  commit() / rollback() returned: close() follows.
ExitAwaitReturn(r) ==
    /\ req[r].pc \in {"release", "commit", "rollback"}
    /\ IF req[r].pc = "release"
       THEN /\ Apply(r, St(Cleared(session),
                          [proxy EXCEPT ![req[r].relArg].state = "released"],
                          AfterExit(req[r])))
            /\ UNCHANGED tx
       ELSE /\ tx' = [tx EXCEPT ![req[r].relArg] =
                         IF req[r].pc = "commit" THEN "committed" ELSE "rolledback"]
            /\ Apply(r, CloseFrom([req[r] EXCEPT !.log = Append(@, req[r].pc)],
                                 session, proxy, 1))

\* The await __aexit__ (or close) is suspended in raises.
\* pool.release raised (the pool may or may not have taken the connection back):
\* in the try, `except BaseException` calls close() again; in the except clause
\* the exception leaves __aexit__.  commit() / rollback() raised: the except
\* clause calls close() and returns False.
ExitAwaitRaise(r) ==
    /\ req[r].pc \in {"release", "commit", "rollback"}
    /\ IF req[r].pc = "release"
       THEN \E st \in {"held", "released"} :
              LET px == [proxy EXCEPT ![req[r].relArg].state = st] IN
              IF req[r].stage = 1
              THEN Apply(r, CloseFrom(req[r], session, px, 2))
              ELSE Apply(r, St(session, px, Propagated(req[r])))
       ELSE Apply(r, CloseFrom([req[r] EXCEPT !.failed = TRUE], session, proxy, 2))
    /\ UNCHANGED tx

\* A direct caller of start() calls SessionManager.close(release).
ApiClose(r) ==
    /\ req[r].pc = "api_open"
    /\ \E release \in BOOLEAN :
          IF release
          THEN Apply(r, CloseFrom(req[r], session, proxy, 2))
          ELSE Apply(r, St(Cleared(session), proxy, Returned(req[r])))
    /\ UNCHANGED tx

\* ------------------------------------------------ /c and /c1
\* The handlers of /c and /c1 use the driver's own context managers on a local
\* connection: `async with pool.acquire() as connection` and `async with
\* connection.transaction()`.  /c reads request.app.pool, which initialize_engine
\* never sets (it sets app.pg): the AttributeError is caught by the handler.
EnterNative(r) ==
    /\ Arrives(r)
    /\ \E route \in {"c", "c1"} :
          LET rq == [req[r] EXCEPT !.route = route, !.transactional = TRUE] IN
          req' = Put(r, IF route = "c" THEN Propagated([rq EXCEPT !.failed = TRUE])
                            ELSE [rq EXCEPT !.pc = "c1_acquire"])
    /\ UNCHANGED <<session, proxy, tx>>

NativePcs == {"c1_acquire", "c1_begin", "c1_query", "c1_commit", "c1_rollback", "c1_release"}

\* The await the /c1 handler is suspended in returns (ok) or raises.
NativeStep(r) ==
    /\ req[r].pc \in NativePcs
    /\ \E ok \in BOOLEAN :
        LET rq == req[r]
            bad == [rq EXCEPT !.exc = TRUE, !.failed = TRUE]
        IN
        /\ (ok /\ rq.pc = "c1_acquire") => Cardinality(Held) < PoolMaxSize
        /\ CASE rq.pc = "c1_acquire" ->
                 /\ proxy' = IF ok THEN [proxy EXCEPT ![r].state = "held"] ELSE proxy
                 /\ req' = Put(r, IF ok THEN [rq EXCEPT !.pc = "c1_begin", !.acquired = r]
                                   ELSE Propagated(bad))
                 /\ UNCHANGED tx
             [] rq.pc = "c1_begin" ->
                 /\ tx' = IF ok THEN [tx EXCEPT ![r] = "started"] ELSE tx
                 /\ req' = Put(r, IF ok THEN [rq EXCEPT !.pc = "c1_query", !.relArg = r]
                                   ELSE [bad EXCEPT !.pc = "c1_release"])
                 /\ UNCHANGED proxy
             [] rq.pc = "c1_query" ->
                 /\ \E choice \in BodyChoices :
                       req' = Put(r, IF ~ok THEN [bad EXCEPT !.pc = "c1_rollback"]
                                     ELSE IF choice = "query" THEN rq
                                     ELSE IF choice = "end" THEN [rq EXCEPT !.pc = "c1_commit"]
                                     ELSE [rq EXCEPT !.pc = "c1_rollback", !.exc = TRUE])
                 /\ UNCHANGED <<proxy, tx>>
             [] rq.pc \in {"c1_commit", "c1_rollback"} ->
                 /\ tx' = IF ok THEN [tx EXCEPT ![r] = IF rq.pc = "c1_commit"
                                                       THEN "committed" ELSE "rolledback"]
                          ELSE tx
                 /\ req' = Put(r, [(IF ok THEN rq ELSE bad) EXCEPT
                                      !.pc = "c1_release",
                                      !.log = IF ok THEN Append(@, IF rq.pc = "c1_commit"
                                                                   THEN "commit" ELSE "rollback")
                                              ELSE @])
                 /\ UNCHANGED proxy
             [] OTHER ->
                 /\ \E st \in (IF ok THEN {"released"} ELSE {"held", "released"}) :
                       proxy' = [proxy EXCEPT ![r].state = st,
                                              ![r].relCalls = IF rq.watched THEN Counted(@) ELSE @]
                 /\ req' = Put(r, IF ok THEN AfterExit([rq EXCEPT !.log = Append(@, "release")])
                                   ELSE Propagated([bad EXCEPT !.log = Append(@, "release")]))
                 /\ UNCHANGED tx
    /\ UNCHANGED session

\* ------------------------------------------------ load_changes
\* Strings that the code compares are sequences of code points; Python orders
\* str values by code point, position by position.
Dot == 46

StrLess(a, b) ==
    \E i \in 1..(Len(a) + 1) :
        /\ \A k \in 1..(i - 1) : k <= Len(b) /\ a[k] = b[k]
        /\ i <= Len(b)
        /\ (i > Len(a) \/ a[i] < b[i])

\* None and the empty string: both are false in `if previous_version:`.
NoVersion == <<>>

\* '.'.join([file_name, file_name2[:-3]])
LoadedVersion(e) == e.dir \o <<Dot>> \o e.file

\* One file_name2 below the sub-directory file_name of the migration directory:
\* kind "py" is a module (with or without a `changes` attribute), "init" is
\* __init__.py, "txt" a file that is not *.py, "dir" a directory.
Entry(dir, file, kind, attr, changes) ==
    [dir |-> dir, file |-> file, kind |-> kind, attr |-> attr, changes |-> changes]

\* migration/1.0/{1.py, 2.py, 10.py, __init__.py}, migration/2.0/{1.py, 2.py, notes.txt}
BaseListing ==
    << Entry(<<49, Dot, 48>>, <<49>>, "py", TRUE, <<"a", "b">>),
       Entry(<<49, Dot, 48>>, <<50>>, "py", TRUE, <<"b", "c">>),
       Entry(<<50, Dot, 48>>, <<49>>, "py", TRUE, <<"a">>),
       Entry(<<49, Dot, 48>>, <<49, 48>>, "py", TRUE, <<"c">>),
       Entry(<<50, Dot, 48>>, <<50>>, "py", FALSE, <<>>),
       Entry(<<49, Dot, 48>>, <<>>, "init", FALSE, <<>>),
       Entry(<<50, Dot, 48>>, <<110>>, "txt", FALSE, <<>>) >>

RECURSIVE SubSeqs(_, _)
\* The sub-sequences of s[1..n]: what os.listdir may find.
SubSeqs(s, n) ==
    IF n = 0 THEN {<<>>}
    ELSE LET shorter == SubSeqs(s, n - 1)
         IN shorter \cup {Append(t, s[n]) : t \in shorter}

Listings == SubSeqs(BaseListing, IF MaxEntries < Len(BaseListing) THEN MaxEntries ELSE Len(BaseListing))

VersionArgs ==
    {NoVersion} \cup {LoadedVersion(BaseListing[i]) : i \in 1..4}

\* load_changes skips the file: not a module, older than previous_version
\* (unless previous_version is current_version), or newer than current_version.
Skipped(e, previous_version, current_version) ==
    \/ e.kind # "py"
    \/ /\ previous_version # NoVersion
       /\ (LoadedVersion(e) = previous_version \/ StrLess(LoadedVersion(e), previous_version))
       /\ current_version # previous_version
    \/ /\ current_version # NoVersion
       /\ StrLess(current_version, LoadedVersion(e))

RECURSIVE LoadFrom(_, _, _, _)
LoadFrom(listing, i, previous_version, current_version) ==
    IF i > Len(listing) THEN <<>>
    ELSE LET e == listing[i]
             rest == LoadFrom(listing, i + 1, previous_version, current_version)
         IN IF Skipped(e, previous_version, current_version) \/ ~e.attr
            THEN rest
            ELSE <<[version |-> LoadedVersion(e), changes |-> e.changes]>> \o rest

\* load_changes(previous_version, current_version, path)
LoadChanges(previous_version, current_version, listing) ==
    LoadFrom(listing, 1, previous_version, current_version)

LoadIdle ==
    [pc |-> "idle", previous_version |-> NoVersion, current_version |-> NoVersion,
     listing |-> <<>>, ret |-> <<>>]

LoadCall ==
    /\ load.pc = "call"
    /\ load' = [load EXCEPT !.pc = "done",
                            !.ret = LoadChanges(load.previous_version,
                                                load.current_version, load.listing)]
    /\ UNCHANGED <<sessVars, mig, registry, pyf, sql, qry>>

\* ------------------------------------------------ migrate
ChangeNames ==
    UNION {{BaseListing[i].changes[k] : k \in 1..Len(BaseListing[i].changes)} :
              i \in 1..Len(BaseListing)}

Zero == [n \in ChangeNames |-> 0]

\* The migration table is empty (create_migration_table has no rows to add) and
\* no run is under way.  rows is the committed table, txrows the table as the
\* run's transaction sees it.  executed counts the task executions that
\* returned, pending those of the open transaction, applied those that
\* were committed.
MigIdle(directory) ==
    [pc |-> "idle", directory |-> directory, dry_run |-> FALSE,
     current_version |-> NoVersion, queue |-> <<>>,
     rows |-> <<>>, txrows |-> <<>>,
     executed |-> Zero, pending |-> Zero, applied |-> Zero,
     skipped |-> {}, shown |-> {}, runs |-> 0]

RowsOf(rows, name) == {i \in 1..Len(rows) : rows[i].name = name}

\* find_version_by_name: fetchval gives the version of the first row with the
\* name, None when there is no such row.
FindVersionByNameNever(rows, name) == NoVersion

FindVersionByName(rows, name) ==
    IF RowsOf(rows, name) = {} THEN NoVersion
    ELSE rows[CHOOSE i \in RowsOf(rows, name) : \A k \in RowsOf(rows, name) : i <= k].version

\* SELECT MAX(version): None for an empty table.
MaxVersion(rows) ==
    IF rows = <<>> THEN NoVersion
    ELSE rows[CHOOSE i \in 1..Len(rows) :
                 \A k \in 1..Len(rows) :
                    rows[k].version = rows[i].version
                    \/ StrLess(rows[k].version, rows[i].version)].version

RECURSIVE Flatten(_, _)
\* The (version, change) pairs in the order the two loops of migrate and
\* perform_versioned_tasks go through them.
Flatten(changes, i) ==
    IF i > Len(changes) THEN <<>>
    ELSE [k \in 1..Len(changes[i].changes) |->
             [version |-> changes[i].version, name |-> changes[i].changes[k]]]
         \o Flatten(changes, i + 1)

\* An exception leaves `async with connection.transaction()`: the transaction
\* is rolled back, the run is over.
Aborted(m) ==
    [m EXCEPT !.pc = "idle", !.queue = <<>>, !.txrows = m.rows, !.pending = Zero]

\* The else branch of perform_versioned_tasks: the task is executed, then
\* track_performed_track inserts its row.  Either await may raise.
PerformTask(m, c, outcome) ==
    IF outcome = "raises_before" THEN Aborted(m)
    ELSE LET done == [m EXCEPT !.executed[c.name] = @ + 1, !.pending[c.name] = @ + 1]
         IN IF outcome = "raises_after" THEN Aborted(done)
            ELSE [done EXCEPT !.txrows = Append(@, [version |-> c.version, name |-> c.name]),
                              !.queue = Tail(@)]

\* One round of the loop that executes the task also in a dry run.
PerformChangeAlways(m, c, dry_run, outcome) ==
    IF FindVersionByName(m.txrows, c.name) # NoVersion
    THEN [m EXCEPT !.skipped = @ \cup {c.name}, !.queue = Tail(@)]
    ELSE PerformTask(m, c, outcome)

\* One round of the loop of perform_versioned_tasks.
PerformChange(m, c, dry_run, outcome) ==
    IF FindVersionByName(m.txrows, c.name) # NoVersion
    THEN [m EXCEPT !.skipped = @ \cup {c.name}, !.queue = Tail(@)]
    ELSE IF dry_run
    THEN [m EXCEPT !.shown = @ \cup {c.name}, !.queue = Tail(@)]
    ELSE PerformTask(m, c, outcome)

Outcomes == {"ok", "raises_before", "raises_after"}

\* python migrate.py [-f <version>]: migrate_from is None by default.
MigrateFromArgs == {NoVersion, LoadedVersion(BaseListing[1])}

\* migrate(...), from its call to the first change.  has_pg: the caller's app
\* has the attribute pg (initialize_app sets app.db only).  A run with
\* migrate_from never gets to the changes: it returns when migrate_from is
\* newer than current_version and else calls connection.fetch_value, which the
\* driver's connection does not have.  Without migrate_from, a table whose newest
\* version is newer than current_version makes the run send a query without a
\* blank before WHERE, which the server rejects.
MigrateStart ==
    /\ mig.pc = "idle"
    /\ mig.runs < MaxRuns
    /\ \E dry_run \in BOOLEAN, current_version \in VersionArgs,
          migrate_from \in MigrateFromArgs, has_pg \in BOOLEAN :
          LET m == [mig EXCEPT !.runs = @ + 1, !.dry_run = dry_run,
                               !.current_version = current_version,
                               !.skipped = {},
                               !.shown = IF dry_run THEN {} ELSE @]
              previous_version == MaxVersion(mig.rows)
          IN mig' = IF ~has_pg \/ migrate_from # NoVersion
                    THEN Aborted(m)
                    ELSE IF /\ previous_version # NoVersion
                            /\ previous_version # current_version
                            /\ current_version # NoVersion
                            /\ StrLess(current_version, previous_version)
                    THEN Aborted(m)
                    ELSE [m EXCEPT !.pc = "running", !.txrows = mig.rows,
                                   !.queue = Flatten(LoadChanges(migrate_from, current_version,
                                                                 mig.directory), 1)]
    /\ UNCHANGED <<sessVars, load, registry, pyf, sql, qry>>

\* The next change of the run.
MigratePerform ==
    /\ mig.pc = "running"
    /\ mig.queue # <<>>
    /\ \E outcome \in Outcomes :
          mig' = PerformChange(mig, Head(mig.queue), mig.dry_run, outcome)
    /\ UNCHANGED <<sessVars, load, registry, pyf, sql, qry>>

\* The loops are over: the transaction commits, or the commit raises.
MigrateEnd ==
    /\ mig.pc = "running"
    /\ mig.queue = <<>>
    /\ \E ok \in BOOLEAN :
          mig' = IF ok
                 THEN [mig EXCEPT !.pc = "idle", !.rows = mig.txrows,
                                  !.applied = [n \in ChangeNames |-> @[n] + mig.pending[n]],
                                  !.pending = Zero]
                 ELSE Aborted(mig)
    /\ UNCHANGED <<sessVars, load, registry, pyf, sql, qry>>

\* ------------------------------------------------ ConnectionManagerRegistry
Callers == 1..NCallers

PoolNames == {"default", "analytics"}

\* ConnectionManagerRegistry.__init__: no pool is registered.  asyncpg.create_pool
\* makes a new pool for every call: the pool (and the ConnectionManager around
\* it) that a call creates is named after the call.
RegistryInit ==
    [pools |-> [n \in PoolNames |-> None],
     created |-> [n \in PoolNames |-> {}],
     call |-> [k \in Callers |-> [pc |-> "idle", name |-> "default", ret |-> None,
                                  raised |-> FALSE]]]

\* initialize(app, name, db_config) on a registered name: line 145.
InitializeRegistered(g, k, name) ==
    [g EXCEPT !.call[k] = [pc |-> "done", name |-> name, ret |-> g.pools[name], raised |-> FALSE]]

\* initialize(app, name, db_config), from its call to the await of create_pool.
\* has_config: a configuration for the name is passed or found (else
\* db_config["dsn"] raises).
Initialize(k) ==
    /\ registry.call[k].pc = "idle"
    /\ \A q \in Callers : q < k => registry.call[q].pc # "idle"
    /\ \E name \in PoolNames, has_config \in BOOLEAN :
          registry' =
             IF registry.pools[name] # None
             THEN InitializeRegistered(registry, k, name)
             ELSE IF ~has_config
             THEN [registry EXCEPT !.call[k] = [pc |-> "done", name |-> name,
                                                ret |-> None, raised |-> TRUE]]
             ELSE [registry EXCEPT !.call[k] = [pc |-> "create_pool", name |-> name,
                                                ret |-> None, raised |-> FALSE]]
    /\ UNCHANGED <<sessVars, load, mig, pyf, sql, qry>>

\* create_pool returns: lines 143-145.
CreatePoolReturn(k) ==
    /\ registry.call[k].pc = "create_pool"
    /\ LET name == registry.call[k].name IN
       registry' = [registry EXCEPT !.created[name] = @ \cup {k},
                                    !.pools[name] = k,
                                    !.call[k].pc = "done",
                                    !.call[k].ret = k]
    /\ UNCHANGED <<sessVars, load, mig, pyf, sql, qry>>

\* create_pool raises (the server cannot be reached): so does initialize.
CreatePoolRaise(k) ==
    /\ registry.call[k].pc = "create_pool"
    /\ registry' = [registry EXCEPT !.call[k].pc = "done", !.call[k].raised = TRUE]
    /\ UNCHANGED <<sessVars, load, mig, pyf, sql, qry>>

\* ------------------------------------------------ pyformat_query_to_native
\* A query is a sequence of characters.
Digits == <<"0", "1", "2", "3", "4", "5", "6", "7", "8", "9">>

RECURSIVE Decimal(_)
\* "%s" % counter
Decimal(n) ==
    IF n < 10 THEN <<Digits[n + 1]>>
    ELSE Decimal(n \div 10) \o <<Digits[(n % 10) + 1]>>

\* "".join(["%(", field_name, ")s"])
Pyformat(field_name) == <<"%", "(">> \o field_name \o <<")", "s">>

MatchesAt(s, i, old) ==
    /\ i + Len(old) - 1 <= Len(s)
    /\ \A k \in 1..Len(old) : s[i + k - 1] = old[k]

RECURSIVE ReplaceFrom(_, _, _, _)
\* str.replace: the occurrences of old are found from left to right, without
\* overlap.
ReplaceFrom(s, i, old, new) ==
    IF i > Len(s) THEN <<>>
    ELSE IF MatchesAt(s, i, old)
    THEN new \o ReplaceFrom(s, i + Len(old), old, new)
    ELSE <<s[i]>> \o ReplaceFrom(s, i + 1, old, new)

StrReplace(s, old, new) == ReplaceFrom(s, 1, old, new)

RECURSIVE PyformatFrom(_, _, _, _)
\* The loop over params.items(), from the item at position `counter`.
PyformatFrom(new_query, field_values, params, counter) ==
    IF counter > Len(params) THEN [new_query |-> new_query, field_values |-> field_values]
    ELSE PyformatFrom(StrReplace(new_query, Pyformat(params[counter].key),
                                 <<"$">> \o Decimal(counter)),
                      Append(field_values, params[counter].value),
                      params, counter + 1)

\* pyformat_query_to_native(query, params)
PyformatQueryToNative(query, params) == PyformatFrom(query, <<>>, params, 1)

FieldNames == {<<"a">>, <<"b">>, <<"a", "b">>}

FieldValues == {"v", "w"}

\* What a query is made of: text, and placeholders in pyformat.
Pieces == {<<"x">>, <<" ">>} \cup {Pyformat(f) : f \in FieldNames}

RECURSIVE Queries(_)
Queries(n) ==
    IF n = 0 THEN {<<>>}
    ELSE LET shorter == Queries(n - 1)
         IN shorter \cup {q \o p : q \in shorter, p \in Pieces}

RECURSIVE ParamsOf(_)
\* The mappings with up to n keys, as the sequence of their items.
ParamsOf(n) ==
    IF n = 0 THEN {<<>>}
    ELSE LET shorter == ParamsOf(n - 1)
         IN shorter \cup
            {Append(ps, [key |-> f, value |-> v]) :
                ps \in {t \in shorter : Len(t) = n - 1},
                f \in FieldNames, v \in FieldValues}

DistinctKeys(params) ==
    \A i, j \in 1..Len(params) : params[i].key = params[j].key => i = j

PyfIdle == [pc |-> "idle", query |-> <<>>, params |-> <<>>,
            new_query |-> <<>>, field_values |-> <<>>]

PyformatCall ==
    /\ pyf.pc = "call"
    /\ LET r == PyformatQueryToNative(pyf.query, pyf.params) IN
       pyf' = [pyf EXCEPT !.pc = "done", !.new_query = r.new_query,
                          !.field_values = r.field_values]
    /\ UNCHANGED <<sessVars, load, mig, registry, sql, qry>>

\* ------------------------------------------------ query builders
SqlIdle == [pc |-> "idle", fn |-> "none", args |-> <<>>, ret |-> <<>>]

\* Python values: a str (its characters), an int (its decimal digits), None, a
\* list of such values, or a Placeholder (its text and its bind_values items).
Value(kind, text, items) == [kind |-> kind, text |-> text, items |-> items]

StrValue(text) == Value("str", text, <<>>)

IntValue(text) == Value("int", text, <<>>)

NoneValue == Value("none", <<>>, <<>>)

ListValue(items) == Value("list", <<>>, items)

\* Placeholder(placeholder, bind_values)
PlaceholderValue(text, bind_values) == Value("placeholder", text, bind_values)

RECURSIVE JoinStr(_, _)
\* sep.join(strs)
JoinStr(strs, sep) ==
    IF strs = <<>> THEN <<>>
    ELSE IF Len(strs) = 1 THEN strs[1]
    ELSE strs[1] \o sep \o JoinStr(Tail(strs), sep)

\* asyncpg.utils._quote_literal
QuoteLiteral(text) == <<"'">> \o StrReplace(text, <<"'">>, <<"'", "'">>) \o <<"'">>

\* quote(field_value)
Quote(v) ==
    CASE v.kind = "str" -> QuoteLiteral(v.text)
      [] v.kind = "none" -> <<"N", "U", "L", "L">>
      [] v.kind = "int" -> v.text
      [] OTHER -> QuoteLiteral(v.text)

\* quote_array(values, wrap)
QuoteArray(values, wrap) ==
    LET inner == JoinStr([k \in 1..Len(values) |-> Quote(values[k])], <<",">>)
    IN IF wrap THEN <<"'", "{">> \o inner \o <<"}", "'">> ELSE inner

RECURSIVE FormatFrom(_, _, _)
\* placeholder % bind_values, the values already quoted.
FormatFrom(text, bind_values, k) ==
    IF k > Len(bind_values) THEN text
    ELSE FormatFrom(StrReplace(text, Pyformat(bind_values[k].key),
                               IF bind_values[k].value.kind = "list"
                               THEN QuoteArray(bind_values[k].value.items, TRUE)
                               ELSE Quote(bind_values[k].value)),
                    bind_values, k + 1)

\* quote_placeholder(placeholder)
QuotePlaceholder(p) ==
    IF p.items # <<>> THEN FormatFrom(p.text, p.items, 1) ELSE p.text

\* One round of the loop of generate_native_insert_query that gives a position
\* to every field.
InsertFieldCounting(acc, value) ==
    [placeholders |-> Append(acc.placeholders,
                             IF value.kind = "placeholder" THEN QuotePlaceholder(value)
                             ELSE <<"$">> \o Decimal(acc.counter)),
     params |-> IF value.kind = "placeholder" THEN acc.params ELSE Append(acc.params, value),
     counter |-> acc.counter + 1]

\* One round of the loop of generate_native_insert_query.
InsertField(acc, value) ==
    IF value.kind = "placeholder"
    THEN [acc EXCEPT !.placeholders = Append(@, QuotePlaceholder(value))]
    ELSE [placeholders |-> Append(acc.placeholders, <<"$">> \o Decimal(acc.counter)),
          params |-> Append(acc.params, value),
          counter |-> acc.counter + 1]

RECURSIVE InsertFrom(_, _, _)
InsertFrom(row, i, acc) ==
    IF i > Len(row) THEN acc
    ELSE InsertFrom(row, i + 1, InsertField(acc, row[i].value))

\* generate_native_insert_query(table, row); row is the sequence of the items
\* of the mapping.
GenerateNativeInsertQuery(table, row) ==
    LET acc == InsertFrom(row, 1, [placeholders |-> <<>>, params |-> <<>>, counter |-> 1])
        fields == [k \in 1..Len(row) |-> row[k].field]
    IN [query |-> <<"I", "N", "S", "E", "R", "T", " ", "I", "N", "T", "O", " ">> \o table \o <<" ", "(">> \o JoinStr(fields, <<",">>)
                  \o <<")", " ", "V", "A", "L", "U", "E", "S", " ", "(">> \o JoinStr(acc.placeholders, <<",">>) \o <<")">>,
        params |-> acc.params]

ColumnNames == {<<"a">>, <<"b">>, <<"c">>}

\* Values a caller stores: 7, 'o''k' (a quote inside), None, and the
\* placeholders now() and f(%(x)s, %(y)s) bound to 7 and 'o''k'.
ScalarValues == {IntValue(<<"7">>), StrValue(<<"o", "'", "k">>), NoneValue}

PlaceholderValues ==
    {PlaceholderValue(<<"n", "o", "w", "(", ")">>, <<>>),
     PlaceholderValue(<<"f", "(">> \o Pyformat(<<"x">>) \o <<",", " ">> \o Pyformat(<<"y">>) \o <<")">>,
                      <<[key |-> <<"x">>, value |-> IntValue(<<"7">>)],
                        [key |-> <<"y">>, value |-> StrValue(<<"o", "'", "k">>)]>>)}

RECURSIVE RowsOfFields(_, _)
\* The mappings with up to n fields and values from vs, as item sequences.
RowsOfFields(n, vs) ==
    IF n = 0 THEN {<<>>}
    ELSE LET shorter == RowsOfFields(n - 1, vs)
         IN shorter \cup
            {Append(row, [field |-> f, value |-> v]) :
                row \in {t \in shorter : Len(t) = n - 1},
                f \in ColumnNames, v \in vs}

DistinctFields(row) ==
    \A i, j \in 1..Len(row) : row[i].field = row[j].field => i = j

InsertCall ==
    /\ sql.pc = "call"
    /\ sql.fn = "generate_native_insert_query"
    /\ sql' = [sql EXCEPT !.pc = "done",
                          !.ret = GenerateNativeInsertQuery(sql.args.table, sql.args.row)]
    /\ UNCHANGED <<sessVars, load, mig, registry, pyf, qry>>

\* One round of the loop of quote_fields; the placeholders are str objects.
QuoteField(acc, value) ==
    IF value.kind = "placeholder"
    THEN [acc EXCEPT !.placeholders = Append(@, StrValue(QuotePlaceholder(value)))]
    ELSE [placeholders |-> Append(acc.placeholders, StrValue(<<"$">> \o Decimal(acc.next_position))),
          params |-> Append(acc.params, value),
          next_position |-> acc.next_position + 1]

RECURSIVE QuoteFieldsFrom(_, _, _)
QuoteFieldsFrom(fields, i, acc) ==
    IF i > Len(fields) THEN acc
    ELSE QuoteFieldsFrom(fields, i + 1, QuoteField(acc, fields[i].value))

\* quote_fields(fields, start_counter): placeholders, params, next_position (the
\* field names are those of the mapping).
QuoteFields(fields, start_counter) ==
    QuoteFieldsFrom(fields, 1, [placeholders |-> <<>>, params |-> <<>>,
                                next_position |-> start_counter])

\* _generate_where_clause(condition, start_counter)
GenerateWhereClause(condition, start_counter) ==
    LET q == QuoteFields(condition, start_counter)
        where_clause ==
            [idx \in 1..Len(condition) |->
                condition[idx].field \o <<" ">>
                \o (IF q.placeholders[idx].kind # "list"
                    THEN <<"=", " ">> \o q.placeholders[idx].text
                    ELSE <<"=", " ", "A", "N", "Y", "(">> \o q.placeholders[idx].text \o <<")">>)]
    IN [clause |-> <<"W", "H", "E", "R", "E", " ">> \o JoinStr(where_clause, <<" ", "A", "N", "D", " ">>), params |-> q.params]

\* The values of a where mapping: scalars, the list [7, 8], the placeholder now().
WhereValues ==
    ScalarValues \cup {ListValue(<<IntValue(<<"7">>), IntValue(<<"8">>)>>),
                       PlaceholderValue(<<"n", "o", "w", "(", ")">>, <<>>)}

WhereCall ==
    /\ sql.pc = "call"
    /\ sql.fn = "_generate_where_clause"
    /\ sql' = [sql EXCEPT !.pc = "done",
                          !.ret = GenerateWhereClause(sql.args.condition,
                                                      sql.args.start_counter)]
    /\ UNCHANGED <<sessVars, load, mig, registry, pyf, qry>>

\* The operators of _generate_filter in the order of simple_ops; None (and "")
\* is the empty string.
SimpleOps ==
    << <<"=">>, <<">">>, <<">", "=">>, <<"<">>, <<"<", "=">>, <<"<", ">">>, <<"!", "=">>, <<"i", "n">>, <<"n", "o", "t", " ", "i", "n">>,
       <<"b", "e", "t", "w", "e", "e", "n">>, <<"c", "o", "n", "t", "a", "i", "n">>, <<"n", "o", "t", " ", "c", "o", "n", "t", "a", "i", "n">>, <<"o", "v", "e", "r", "l", "a", "p">>, <<"n", "o", "t", " ", "o", "v", "e", "r", "l", "a", "p">>, <<"l", "i", "k", "e">> >>

\* simple_ops with "in" and "not in" exchanged.
OpPositionSwapped(op) ==
    IF op = <<"i", "n">> THEN 9 ELSE IF op = <<"n", "o", "t", " ", "i", "n">> THEN 8
    ELSE IF \E k \in 1..Len(SimpleOps) : SimpleOps[k] = op
    THEN CHOOSE k \in 1..Len(SimpleOps) : SimpleOps[k] = op
    ELSE 0

\* simple_ops[op]; 0 when op is not a key (KeyError).
OpPosition(op) ==
    IF \E k \in 1..Len(SimpleOps) : SimpleOps[k] = op
    THEN CHOOSE k \in 1..Len(SimpleOps) : SimpleOps[k] = op
    ELSE 0

Contains(s, sub) == \E i \in 1..Len(s) : MatchesAt(s, i, sub)

\* What iterating over (or indexing) a value gives: the items of a list, the
\* characters of a str.
Elements(value) ==
    IF value.kind = "list" THEN value.items
    ELSE [k \in 1..Len(value.text) |-> StrValue(<<value.text[k]>>)]

Text(text) == [raised |-> "none", text |-> text]

Failed(exception) == [raised |-> exception, text |-> <<>>]

\* _generate_filter(field, value, op)
GenerateFilter(field, value, op0) ==
    LET op == IF op0 = <<>> THEN <<"=">> ELSE op0
        op_position == OpPosition(op)
        iterable == value.kind \in {"list", "str"}
        range == value.kind = "str"
    IN
    IF op_position = 0 THEN Failed("KeyError")
    ELSE IF op_position < 8 THEN Text(field \o <<" ">> \o op \o <<" ">> \o Quote(value))
    ELSE IF op_position < 9
    THEN IF ~iterable THEN Failed("TypeError")
         ELSE Text(field \o <<" ", "=", " ", "A", "N", "Y", "(">> \o QuoteArray(Elements(value), TRUE) \o <<")">>)
    ELSE IF op_position < 10
    THEN IF ~iterable THEN Failed("TypeError")
         ELSE Text(field \o <<" ", "!", "=", " ", "A", "L", "L", "(">> \o QuoteArray(Elements(value), TRUE) \o <<")">>)
    ELSE IF op_position < 11
    THEN IF ~iterable THEN Failed("TypeError")
         ELSE IF Len(Elements(value)) < 2 THEN Failed("IndexError")
         ELSE Text(field \o <<" ", "B", "E", "T", "W", "E", "E", "N", " ">> \o Quote(Elements(value)[1])
                   \o <<" ", "A", "N", "D", " ">> \o Quote(Elements(value)[2]))
    ELSE IF op_position < 12 THEN Text(field \o <<" ", "@", ">", " ">> \o Quote(value))
    ELSE IF op_position < 13 THEN Text(<<"N", "O", "T", " ", "(">> \o field \o <<" ", "@", ">", " ">> \o Quote(value) \o <<")">>)
    ELSE IF op_position < 14
    THEN IF ~range \/ ~Contains(value.text, <<"r", "a", "n", "g", "e", "(">>) THEN Failed("UserWarning")
         ELSE Text(field \o <<" ", "&", "&", " ">> \o StrReplace(value.text, <<"'">>, <<>>))
    ELSE IF op_position < 15
    THEN IF ~range \/ ~Contains(value.text, <<"r", "a", "n", "g", "e", "(">>) THEN Failed("UserWarning")
         ELSE Text(<<"N", "O", "T", " ", "(">> \o field \o <<" ", "&", "&", " ">> \o StrReplace(value.text, <<"'">>, <<>>) \o <<")">>)
    ELSE Text(field \o <<" ", "L", "I", "K", "E", " ">> \o Quote(value))

\* The operators callers pass: those of the vocabulary, None, and "~".
FilterOps == {SimpleOps[k] : k \in 1..Len(SimpleOps)} \cup {<<>>, <<"~">>}

\* 7, 'o''k', None, the ranges range(1, 5) and range('a'), the lists [7, 8] and
\* ['o''k'].
FilterValues ==
    ScalarValues \cup
    {StrValue(<<"r", "a", "n", "g", "e", "(", "1", ",", " ", "5", ")">>), StrValue(<<"r", "a", "n", "g", "e", "(", "'", "a", "'", ")">>),
     ListValue(<<IntValue(<<"7">>), IntValue(<<"8">>)>>), ListValue(<<StrValue(<<"o", "'", "k">>)>>)}

\* Where a list is not iterated it is rendered by str(), which is not modelled:
\* lists go with in, not in and between.
FilterArgs ==
    {a \in [field : ColumnNames, value : FilterValues, op : FilterOps] :
        a.value.kind = "list" => a.op \in {<<"i", "n">>, <<"n", "o", "t", " ", "i", "n">>, <<"b", "e", "t", "w", "e", "e", "n">>}}

FilterCall ==
    /\ sql.pc = "call"
    /\ sql.fn = "_generate_filter"
    /\ sql' = [sql EXCEPT !.pc = "done",
                          !.ret = GenerateFilter(sql.args.field, sql.args.value, sql.args.op)]
    /\ UNCHANGED <<sessVars, load, mig, registry, pyf, qry>>

\* ------------------------------------------------ generate_select
MaxConds == 2

\* A condition of a where or having tuple: a (field, value) or (field, value, op)
\* tuple, an Or(...) of conditions, or a Match(...).
Cond(kind, field, value, op, arity, conditions, query_type, phrase_distance) ==
    [kind |-> kind, field |-> field, value |-> value, op |-> op, arity |-> arity,
     conditions |-> conditions, query_type |-> query_type, phrase_distance |-> phrase_distance]

Pair(field, value) == Cond("tuple", field, value, <<>>, 2, <<>>, 0, 0)

Triple(field, value, op) == Cond("tuple", field, value, op, 3, <<>>, 0, 0)

Or(conditions) == Cond("or", <<>>, NoneValue, <<>>, 0, conditions, 0, 0)

Match(field, terms, phrase_distance, query_type) ==
    Cond("match", field, terms, <<>>, 0, <<>>, query_type, phrase_distance)

\* Match's default reg_config.
RegConfig == <<"e", "n", "g", "l", "i", "s", "h">>

\* Match.to_sql
MatchToSql(m) ==
    LET call(fn, terms) ==
            Text(m.field \o <<" ", "@", "@", " ">> \o fn \o <<"(", "'">> \o RegConfig \o <<"'", ",", " ">> \o Quote(terms) \o <<")">>)
        joined(sep) == StrValue(JoinStr([k \in 1..Len(m.value.items) |-> m.value.items[k].text], sep))
    IN
    IF m.query_type = 1 THEN call(<<"p", "l", "a", "i", "n", "t", "o", "_", "t", "s", "q", "u", "e", "r", "y">>, m.value)
    ELSE IF m.query_type = 2 THEN call(<<"t", "o", "_", "t", "s", "q", "u", "e", "r", "y">>, m.value)
    ELSE IF m.query_type = 3
    THEN IF m.value.kind # "list" THEN Failed("UserWarning")
         ELSE call(<<"t", "o", "_", "t", "s", "q", "u", "e", "r", "y">>, joined(<<" ", "&", " ">>))
    ELSE IF m.query_type = 4
    THEN IF m.value.kind # "list" THEN Failed("UserWarning")
         ELSE call(<<"t", "o", "_", "t", "s", "q", "u", "e", "r", "y">>, joined(<<" ", "|", " ">>))
    ELSE IF m.query_type = 5 THEN call(<<"p", "h", "r", "a", "s", "e", "t", "o", "_", "t", "s", "q", "u", "e", "r", "y">>, m.value)
    ELSE IF m.query_type = 6
    THEN IF m.value.kind # "str" THEN Failed("AttributeError")
         ELSE call(<<"t", "o", "_", "t", "s", "q", "u", "e", "r", "y">>,
                   StrValue(StrReplace(m.value.text, <<" ">>,
                                       <<" ", "<">> \o Decimal(m.phrase_distance) \o <<">", " ">>)))
    ELSE IF m.query_type = 7
    THEN IF m.value.kind # "str" \/ Contains(m.value.text, <<" ">>) THEN Failed("UserWarning")
         ELSE call(<<"t", "o", "_", "t", "s", "q", "u", "e", "r", "y">>, StrValue(m.value.text \o <<":", "*">>))
    ELSE Text(m.field \o <<" ", "@", "@", " ", "(">> \o m.value.text \o <<")">>)

\* The first failure among the results, or the texts joined by sep.
Joined(results, sep) ==
    IF \E k \in 1..Len(results) : results[k].raised # "none"
    THEN results[CHOOSE k \in 1..Len(results) :
                    /\ results[k].raised # "none"
                    /\ \A j \in 1..(k - 1) : results[j].raised = "none"]
    ELSE Text(JoinStr([k \in 1..Len(results) |-> results[k].text], sep))

RECURSIVE ToSql(_)
\* One condition of generate_select's (and Or.to_sql's) loop: cond[2] of a
\* tuple gives the operator (None for a pair), an object is asked for to_sql().
ToSql(cond) ==
    IF cond.kind = "tuple"
    THEN GenerateFilter(cond.field, cond.value, IF cond.arity = 3 THEN cond.op ELSE <<>>)
    ELSE IF cond.kind = "match" THEN MatchToSql(cond)
    ELSE LET ret == Joined([k \in 1..Len(cond.conditions) |-> ToSql(cond.conditions[k])], <<" ", "O", "R", " ">>)
         IN IF ret.raised = "none" /\ Len(cond.conditions) >= 2
            THEN Text(<<"(">> \o ret.text \o <<")">>)
            ELSE ret

\* A table: a name, or a JoinedTable with its steps
\* (left_table, right_table, left_table_pk, right_table_fk, join_type).
Table(name, steps) == [name |-> name, steps |-> steps]

\* JoinedTable.to_sql
JoinedToSql(steps) ==
    LET join_sql(step) == IF step[5] = 2 THEN <<"L", "E", "F", "T", " ", "J", "O", "I", "N">>
                          ELSE IF step[5] = 3 THEN <<"R", "I", "G", "H", "T", " ", "J", "O", "I", "N">>
                          ELSE <<"I", "N", "N", "E", "R", " ", "J", "O", "I", "N">>
        build(step) == join_sql(step) \o <<" ">> \o step[2] \o <<" ", "O", "N", " ">> \o step[1] \o <<".">> \o step[3]
                       \o <<" ", "=", " ">> \o step[2] \o <<".">> \o step[4]
    IN JoinStr(<<steps[1][1]>> \o [k \in 1..Len(steps) |-> build(steps[k])], <<" ">>)

\* Python truth of an argument: None, 0 and the empty tuple are false.
Truthy(v) ==
    CASE v.kind = "none" -> FALSE
      [] v.kind = "int" -> v.text # <<"0">>
      [] v.kind = "list" -> v.items # <<>>
      [] OTHER -> TRUE

\* OFFSET/LIMIT emitted whenever limit is set, whatever offset is.
PagedAnyOffset(offset, limit) == Truthy(limit)

\* `if offset and limit`
Paged(offset, limit) == Truthy(offset) /\ Truthy(limit)

\* generate_select(table, columns, where, group_by, group_filter, order_by,
\* offset, limit); where, group_by, group_filter and order_by are None or
\* tuples (list values here).
GenerateSelect(table, columns, where, group_by, group_filter, order_by, offset, limit) ==
    LET head == <<<<"S", "E", "L", "E", "C", "T">>, JoinStr(columns, <<",", " ">>), <<"F", "R", "O", "M">>,
                  IF table.steps = <<>> THEN table.name ELSE JoinedToSql(table.steps)>>
        where_clause == Joined([k \in 1..Len(where.items) |-> ToSql(where.items[k])], <<" ", "A", "N", "D", " ">>)
        group_conditions ==
            Joined([k \in 1..Len(group_filter.items) |-> ToSql(group_filter.items[k])], <<" ", "A", "N", "D", " ">>)
        order == [k \in 1..Len(order_by.items) |->
                    order_by.items[k][1] \o <<" ">> \o order_by.items[k][2]]
        query ==
            head
            \o (IF Truthy(where) THEN <<<<"W", "H", "E", "R", "E">>, where_clause.text>> ELSE <<>>)
            \o (IF Truthy(group_by) THEN <<<<"G", "R", "O", "U", "P", " ", "B", "Y", " ">> \o JoinStr(group_by.items, <<",", " ">>)>> ELSE <<>>)
            \o (IF Truthy(group_filter) THEN <<<<"H", "A", "V", "I", "N", "G">>, group_conditions.text>> ELSE <<>>)
            \o (IF Truthy(order_by) THEN <<<<"O", "R", "D", "E", "R", " ", "B", "Y", " ">> \o JoinStr(order, <<",", " ">>)>> ELSE <<>>)
            \o (IF Paged(offset, limit)
                THEN <<<<"O", "F", "F", "S", "E", "T", " ">> \o offset.text \o <<" ", "L", "I", "M", "I", "T", " ">> \o limit.text>> ELSE <<>>)
    IN
    IF Truthy(where) /\ where_clause.raised # "none" THEN where_clause
    ELSE IF Truthy(group_filter) /\ group_conditions.raised # "none" THEN group_conditions
    ELSE Text(JoinStr(query, <<" ">>))

\* The conditions callers pass.
SelectConds ==
    {Triple(<<"a">>, IntValue(<<"7">>), <<">">>),
     Pair(<<"b">>, StrValue(<<"o", "'", "k">>)),
     Or(<<Pair(<<"c">>, IntValue(<<"1">>)), Pair(<<"c">>, IntValue(<<"2">>))>>),
     Match(<<"b">>, StrValue(<<"x", " ", "y">>), 2, 6)}

RECURSIVE TuplesOf(_, _)
\* The tuples of up to n distinct members of S.
TuplesOf(S, n) ==
    IF n = 0 THEN {<<>>}
    ELSE LET shorter == TuplesOf(S, n - 1)
             longest == {u \in shorter : Len(u) = n - 1}
         IN shorter \cup
            {Append(p[1], p[2]) :
                p \in {q \in longest \X S : \A i \in 1..Len(q[1]) : q[1][i] # q[2]}}

\* An optional tuple argument: None, or one of the given tuples.
Optional(tuples) == {NoneValue} \cup {ListValue(t) : t \in tuples}

Tables ==
    {Table(<<"t">>, <<>>),
     Table(<<>>, <<<<<<"t">>, <<"u">>, <<"i", "d">>, <<"t", "i", "d">>, 2>>>>)}

Offsets == {NoneValue, IntValue(<<"0">>), IntValue(<<"2">>)}

Limits == {NoneValue, IntValue(<<"0">>), IntValue(<<"1">>)}

SelectArgs ==
    [table : Tables,
     columns : {<<<<"a">>>>, <<<<"a">>, <<"b">>>>},
     where : Optional(TuplesOf(SelectConds, MaxConds)),
     group_by : Optional({<<>>, <<<<"a">>, <<"b">>>>}),
     group_filter : Optional({<<Triple(<<"a">>, IntValue(<<"7">>), <<">">>)>>}),
     order_by : Optional({<<<<<<"a">>, <<"A", "S", "C">>>>, <<<<"b">>, <<"D", "E", "S", "C">>>>>>}),
     offset : Offsets,
     limit : Limits]

SelectCall ==
    /\ sql.pc = "call"
    /\ sql.fn = "generate_select"
    /\ LET a == sql.args IN
       sql' = [sql EXCEPT !.pc = "done",
                          !.ret = GenerateSelect(a.table, a.columns, a.where, a.group_by,
                                                 a.group_filter, a.order_by, a.offset, a.limit)]
    /\ UNCHANGED <<sessVars, load, mig, registry, pyf, qry>>

\* A keyword argument the caller leaves out.
Omitted == Value("omitted", <<>>, <<>>)

\* find(table, columns, where, group_by, group_filter, order_by, offset=0, limit=1)
FindOffset(offset) == IF offset = Omitted THEN IntValue(<<"0">>) ELSE offset

FindLimit(limit) == IF limit = Omitted THEN IntValue(<<"1">>) ELSE limit

FindArgs ==
    [table : {Table(<<"t">>, <<>>)},
     columns : {<<<<"a">>>>},
     where : Optional(TuplesOf(SelectConds, 1)),
     group_by : {NoneValue},
     group_filter : {NoneValue},
     order_by : Optional({<<<<<<"a">>, <<"A", "S", "C">>>>>>}),
     offset : Offsets \cup {Omitted},
     limit : Limits \cup {Omitted}]

\* SessionManager.find: ret is the query handed to _execute_and_fetch (with no
\* parameters and no row limit), whose rows find returns as dictionaries.
FindCall ==
    /\ sql.pc = "call"
    /\ sql.fn = "find"
    /\ LET a == sql.args IN
       sql' = [sql EXCEPT !.pc = "done",
                          !.ret = GenerateSelect(a.table, a.columns, a.where, a.group_by,
                                                 a.group_filter, a.order_by,
                                                 FindOffset(a.offset), FindLimit(a.limit))]
    /\ UNCHANGED <<sessVars, load, mig, registry, pyf, qry>>

\* ------------------------------------------------ query methods
QryIdle == [pc |-> "idle", method |-> "none", args |-> <<>>, sent |-> <<>>, ret |-> <<>>]

\* Null(): "no such row", as opposed to None, a NULL field.
NullValue == Value("null", <<>>, <<>>)

\* What the driver hands back for a statement: the rows it matches, cut to
\* `limit` rows when limit is not 0; for a statement without a result set, None.
DriverRows(matching, limit) ==
    IF limit = 0 \/ Len(matching) <= limit THEN matching
    ELSE SubSeq(matching, 1, limit)

\* The result of a method: the value returned, or the exception raised.
Return(value) == [raised |-> "none", value |-> value]

Raise(exception) == [raised |-> exception, value |-> NoneValue]

\* The statement a method hands to the connection.
Statement(query, params, limit) == [query |-> query, args |-> params, limit |-> limit]

\* The first lines of the fetch methods: pyformat parameters are converted to
\* the native form before the statement is sent.
Native(query, params, limit) ==
    IF params # <<>>
    THEN LET r == PyformatQueryToNative(query, params)
         IN Statement(r.new_query, r.field_values, limit)
    ELSE Statement(query, <<>>, limit)

\* SessionManager.fetch_value, after _execute_and_fetch has returned ret.
FetchValue(answer, ret) ==
    IF answer = "raises" THEN Raise("driver")
    ELSE IF answer = "none" THEN Return(NullValue)
    ELSE IF ret = <<>> THEN Raise("IndexError")
    ELSE Return(ret[1][1])

\* SessionManager.fetch_column, after _execute_and_fetch has returned ret.
FetchColumn(answer, ret) ==
    IF answer = "raises" THEN Raise("driver")
    ELSE IF answer = "none" THEN Raise("TypeError")
    ELSE Return(ListValue([k \in 1..Len(ret) |-> ret[k][1]]))

\* The two statements callers send, one without and one with parameters.
QueryArgs ==
    {[query |-> <<"q">>, params |-> <<>>],
     [query |-> <<"q", " ">> \o Pyformat(<<"a">>), params |-> <<[key |-> <<"a">>, value |-> "v"]>>]}

RECURSIVE ResultSets(_)
\* The result sets of up to n rows with one or two columns.
ResultSets(n) ==
    IF n = 0 THEN {<<>>}
    ELSE LET shorter == ResultSets(n - 1)
         IN shorter \cup
            {Append(rs, row) :
                rs \in {t \in shorter : Len(t) = n - 1},
                row \in {<<v>> : v \in ScalarValues} \cup {<<IntValue(<<"7">>), NoneValue>>}}

Answers == {"rows", "none", "raises"}

FetchValueCall ==
    /\ qry.pc = "call"
    /\ qry.method = "fetch_value"
    /\ qry' = [qry EXCEPT !.pc = "done",
                          !.sent = <<Native(qry.args.query, qry.args.params, 1)>>,
                          !.ret = FetchValue(qry.args.answer, DriverRows(qry.args.matching, 1))]
    /\ UNCHANGED <<sessVars, load, mig, registry, pyf, sql>>

FetchColumnCall ==
    /\ qry.pc = "call"
    /\ qry.method = "fetch_column"
    /\ qry' = [qry EXCEPT !.pc = "done",
                          !.sent = <<Native(qry.args.query, qry.args.params, 1)>>,
                          !.ret = FetchColumn(qry.args.answer, DriverRows(qry.args.matching, 1))]
    /\ UNCHANGED <<sessVars, load, mig, registry, pyf, sql>>

\* generate_native_update_query(table, row, where_clause); update() calls it with
\* a where mapping that is not empty.
GenerateNativeUpdateQuery(table, row, where_clause) ==
    LET q == QuoteFields(row, 1)
        set_phrases == [idx \in 1..Len(row) |->
                          row[idx].field \o <<" ", "=", " ">> \o q.placeholders[idx].text]
        w == GenerateWhereClause(where_clause, q.next_position)
    IN [query |-> <<"U", "P", "D", "A", "T", "E", " ">> \o table \o <<" ", "S", "E", "T", " ">> \o JoinStr(set_phrases, <<",", " ">>)
                  \o <<" ">> \o w.clause,
        params |-> q.params \o w.params]

\* A where argument: None (not given) or a mapping, as its item sequence.
WhereArg(given, items) == [given |-> given, items |-> items]

\* update, delete and delete_and_fetch without the test of `where`.
RefusedNever(where) == FALSE

\* `if not where`: None and the empty mapping are refused.
Refused(where) == ~where.given \/ where.items = <<>>

\* update / delete / delete_and_fetch: the statement the method builds.
ModifyStatement(method, a) ==
    CASE method = "update" ->
           LET u == GenerateNativeUpdateQuery(a.table, a.values, a.where.items)
           IN Statement(u.query, u.params, 0)
      [] method = "delete" ->
           LET w == GenerateWhereClause(a.where.items, 1)
           IN Statement(<<"D", "E", "L", "E", "T", "E", " ", "F", "R", "O", "M", " ">> \o a.table \o <<" ">> \o w.clause, w.params, 0)
      [] OTHER ->
           LET w == GenerateWhereClause(a.where.items, 1)
           IN Statement(<<"D", "E", "L", "E", "T", "E", " ", "F", "R", "O", "M", " ">> \o a.table \o <<" ">> \o w.clause
                        \o <<" ", "R", "E", "T", "U", "R", "N", "I", "N", "G", " ", "*">>, w.params, 0)

\* SessionManager.update, .delete and .delete_and_fetch.  update and delete
\* check that the connection is open and return the number of affected rows;
\* delete_and_fetch returns the deleted rows.
ModifyCall ==
    /\ qry.pc = "call"
    /\ qry.method \in {"update", "delete", "delete_and_fetch"}
    /\ LET a == qry.args IN
       qry' = IF Refused(a.where)
              THEN [qry EXCEPT !.pc = "done", !.ret = Raise("UserWarning")]
              ELSE IF qry.method # "delete_and_fetch" /\ ~a.open
              THEN [qry EXCEPT !.pc = "done", !.ret = Raise("InterfaceError")]
              ELSE [qry EXCEPT !.pc = "done",
                               !.sent = <<ModifyStatement(qry.method, a)>>,
                               !.ret = IF a.answer = "raises" THEN Raise("driver")
                                       ELSE IF qry.method = "delete_and_fetch"
                                       THEN Return(ListValue(DriverRows(a.matching, 0)))
                                       ELSE Return(IntValue(Decimal(Len(a.matching))))]
    /\ UNCHANGED <<sessVars, load, mig, registry, pyf, sql>>

\* ------------------------------------------------ specifications
Quiet ==
    /\ SessInit(1)
    /\ load = LoadIdle
    /\ mig = MigIdle(<<>>)
    /\ registry = RegistryInit
    /\ pyf = PyfIdle
    /\ sql = SqlIdle
    /\ qry = QryIdle

Init ==
    /\ \E w \in Requests : SessInit(w)
    /\ load = LoadIdle
    /\ mig = MigIdle(<<>>)
    /\ registry = RegistryInit
    /\ pyf = PyfIdle
    /\ sql = SqlIdle
    /\ qry = QryIdle

\* The session manager under its context manager and under direct callers.
Next ==
    \/ \E r \in Requests : Enter(r, {"sup", "api"}) /\ UNCHANGED otherVars
    \/ \E r \in Requests : AcquireReturn(r) /\ UNCHANGED otherVars
    \/ \E r \in Requests : AcquireRaise(r) /\ UNCHANGED otherVars
    \/ \E r \in Requests : QueryReturn(r) /\ UNCHANGED otherVars
    \/ \E r \in Requests : QueryRaise(r) /\ UNCHANGED otherVars
    \/ \E r \in Requests : ExitAwaitReturn(r) /\ UNCHANGED otherVars
    \/ \E r \in Requests : ExitAwaitRaise(r) /\ UNCHANGED otherVars
    \/ \E r \in Requests : ApiClose(r) /\ UNCHANGED otherVars

\* The web application: requests to /c, /c1 and /c2.
NextRoutes ==
    \/ \E r \in Requests : Enter(r, {"c2"}) /\ UNCHANGED otherVars
    \/ \E r \in Requests : EnterNative(r) /\ UNCHANGED otherVars
    \/ \E r \in Requests : AcquireReturn(r) /\ UNCHANGED otherVars
    \/ \E r \in Requests : AcquireRaise(r) /\ UNCHANGED otherVars
    \/ \E r \in Requests : QueryReturn(r) /\ UNCHANGED otherVars
    \/ \E r \in Requests : QueryRaise(r) /\ UNCHANGED otherVars
    \/ \E r \in Requests : ExitAwaitReturn(r) /\ UNCHANGED otherVars
    \/ \E r \in Requests : ExitAwaitRaise(r) /\ UNCHANGED otherVars
    \/ \E r \in Requests : NativeStep(r) /\ UNCHANGED otherVars

Spec == Init /\ [][Next]_vars

SpecRoutes == Init /\ [][NextRoutes]_vars

\* A caller is about to call load_changes with some arguments.
InitLoad ==
    /\ SessInit(1)
    /\ mig = MigIdle(<<>>)
    /\ registry = RegistryInit
    /\ pyf = PyfIdle
    /\ sql = SqlIdle
    /\ qry = QryIdle
    /\ \E p \in VersionArgs, c \in VersionArgs, l \in Listings :
          load = [pc |-> "call", previous_version |-> p, current_version |-> c,
                  listing |-> l, ret |-> <<>>]

NextLoad == LoadCall

SpecLoad == InitLoad /\ [][NextLoad]_vars

\* The scripts of the migration directory stay the same over the runs.
InitMigrate ==
    /\ SessInit(1)
    /\ load = LoadIdle
    /\ registry = RegistryInit
    /\ pyf = PyfIdle
    /\ sql = SqlIdle
    /\ qry = QryIdle
    /\ \E l \in Listings : mig = MigIdle(l)

NextMigrate ==
    \/ MigrateStart
    \/ MigratePerform
    \/ MigrateEnd

SpecMigrate == InitMigrate /\ [][NextMigrate]_vars

NextRegistry ==
    \/ \E k \in Callers : Initialize(k)
    \/ \E k \in Callers : CreatePoolReturn(k)
    \/ \E k \in Callers : CreatePoolRaise(k)

SpecRegistry == Quiet /\ [][NextRegistry]_vars

\* A caller is about to call pyformat_query_to_native with a query and a mapping.
InitPyformat ==
    /\ SessInit(1)
    /\ load = LoadIdle
    /\ mig = MigIdle(<<>>)
    /\ registry = RegistryInit
    /\ sql = SqlIdle
    /\ qry = QryIdle
    /\ \E q \in Queries(MaxPieces), ps \in ParamsOf(MaxParams) :
          /\ DistinctKeys(ps)
          /\ pyf = [pc |-> "call", query |-> q, params |-> ps,
                    new_query |-> <<>>, field_values |-> <<>>]

NextPyformat == PyformatCall

SpecPyformat == InitPyformat /\ [][NextPyformat]_vars

\* A caller is about to call one of the query builders.
InitSql ==
    /\ SessInit(1)
    /\ load = LoadIdle
    /\ mig = MigIdle(<<>>)
    /\ registry = RegistryInit
    /\ pyf = PyfIdle
    /\ qry = QryIdle
    /\ \/ \E row \in RowsOfFields(MaxFields, ScalarValues \cup PlaceholderValues) :
             /\ DistinctFields(row)
             /\ sql = [pc |-> "call", fn |-> "generate_native_insert_query",
                       args |-> [table |-> <<"t">>, row |-> row], ret |-> <<>>]
       \/ \E condition \in RowsOfFields(MaxFields, WhereValues), start_counter \in {1, 2} :
             /\ DistinctFields(condition)
             /\ sql = [pc |-> "call", fn |-> "_generate_where_clause",
                       args |-> [condition |-> condition, start_counter |-> start_counter],
                       ret |-> <<>>]
       \/ \E a \in FilterArgs :
             sql = [pc |-> "call", fn |-> "_generate_filter", args |-> a, ret |-> <<>>]
       \/ \E a \in SelectArgs :
             sql = [pc |-> "call", fn |-> "generate_select", args |-> a, ret |-> <<>>]
       \/ \E a \in FindArgs :
             sql = [pc |-> "call", fn |-> "find", args |-> a, ret |-> <<>>]

NextSql ==
    \/ InsertCall
    \/ WhereCall
    \/ FilterCall
    \/ SelectCall
    \/ FindCall

SpecSql == InitSql /\ [][NextSql]_vars

\* A caller is about to call a query method of a started session; the driver's
\* answer to the statement is fixed by the database.
InitQuery ==
    /\ SessInit(1)
    /\ load = LoadIdle
    /\ mig = MigIdle(<<>>)
    /\ registry = RegistryInit
    /\ pyf = PyfIdle
    /\ sql = SqlIdle
    /\ \/ \E method \in {"fetch_value", "fetch_column"}, q \in QueryArgs,
             matching \in ResultSets(MaxRows), answer \in Answers :
             /\ answer # "rows" => matching = <<>>
             /\ qry = [pc |-> "call", method |-> method,
                       args |-> [query |-> q.query, params |-> q.params,
                                 matching |-> matching, answer |-> answer],
                       sent |-> <<>>, ret |-> <<>>]
       \/ \E method \in {"update", "delete", "delete_and_fetch"},
             where \in {WhereArg(FALSE, <<>>)}
                       \cup {WhereArg(TRUE, c) : c \in RowsOfFields(MaxFields, WhereValues)},
             matching \in ResultSets(1), answer \in {"rows", "raises"}, open \in BOOLEAN :
             /\ DistinctFields(where.items)
             /\ answer # "rows" => matching = <<>>
             /\ qry = [pc |-> "call", method |-> method,
                       args |-> [table |-> <<"t">>,
                                 values |-> <<[field |-> <<"a">>, value |-> IntValue(<<"7">>)]>>,
                                 where |-> where, matching |-> matching,
                                 answer |-> answer, open |-> open],
                       sent |-> <<>>, ret |-> <<>>]

NextQuery ==
    \/ FetchValueCall
    \/ FetchColumnCall
    \/ ModifyCall

SpecQuery == InitQuery /\ [][NextQuery]_vars

\* ============================================================ properties
Before(log, a, b) ==
    \E i, j \in 1..Len(log) : i < j /\ log[i] = a /\ log[j] = b

\* C1: for supervise(session, transactional=True) with the connection still open
\* at exit, a body that finishes without an exception is committed and only then
\* is the connection released; a body that raises is rolled back, then the
\* connection is released, the exception reaches the caller and nothing is
\* committed.
C1_CommitOrRollbackThenRelease ==
    \A r \in Requests :
        (/\ req[r].pc = "done" /\ req[r].route = "sup"
         /\ req[r].transactional /\ req[r].openAtExit)
        => IF req[r].exc
           THEN /\ Before(req[r].log, "rollback", "release")
                /\ req[r].raised
                /\ \A i \in 1..Len(req[r].log) : req[r].log[i] # "commit"
           ELSE Before(req[r].log, "commit", "release")

\* C2: while the body of a transactional block executes, session.transaction is
\* a started transaction on session.connection; in a block that is not
\* transactional session.transaction is None.
C2_TransactionInBody ==
    \A r \in Requests :
        (req[r].pc = "query" /\ req[r].route \in {"sup", "c2"}
         /\ session.connection = req[r].acquired)
        => IF req[r].transactional
           THEN /\ session.transaction = session.connection
                /\ tx[session.connection] = "started"
           ELSE session.transaction = None

\* C3: SessionManager.start called on a session whose connection is already set
\* raises UserWarning, acquires nothing from the pool and leaves connection,
\* transaction, isolation, readonly and deferrable unchanged.
C3_StartOnOpenSession ==
    [][\A r \in Requests :
          (/\ req[r].pc = "idle" /\ req'[r].pc # "idle"
           /\ req'[r].route \in {"sup", "api", "c2"}
           /\ session.connection # None)
          => /\ req'[r].pc = "done"
             /\ req'[r].acquired = None
             /\ req'[r].watched => (req'[r].failed /\ (req'[r].raised \/ req'[r].status = 500))
             /\ session' = session
             /\ proxy' = proxy]_vars

\* A direct caller's start("serializable", True, True) has raised on a session
\* that another request holds with the default settings.
C3_Witness ==
    \E r \in Requests :
        /\ req[r].pc = "done" /\ req[r].route = "api" /\ req[r].raised
        /\ req[r].acquired = None
        /\ req[r].args.isolation = "serializable"
        /\ session.connection # None /\ session.connection # r
        /\ proxy[session.connection].state = "held"
        /\ session.isolation = "read_committed" /\ ~session.readonly /\ ~session.deferrable

\* C4: sessions are request-scoped on the shared SessionManager: a request's
\* queries run only on the connection it acquired, an acquired connection is not
\* overwritten in session.connection before it is released, and a request's exit
\* neither releases nor clears the connection of another request.
C4_RequestScoped ==
    [][/\ \A r \in Requests : ~req'[r].stray
       /\ (session.connection # None /\ session'.connection # None
            /\ session'.connection # session.connection)
           => proxy[session.connection].state # "held"
       /\ \A p \in Proxies :
            (\/ (session.connection = p /\ session'.connection = None)
             \/ (proxy[p].state = "held" /\ proxy'[p].state = "released"))
            => req'[p] # req[p]]_vars

\* C9: the handlers of /c, /c1 and /c2 never let an exception out: they answer
\* 200 or 500, and 500 whenever an exception was raised while acquiring the
\* connection, in the transaction or by a query.
C9_HandlersAnswer500 ==
    \A r \in Requests :
        (req[r].pc = "done" /\ req[r].watched /\ req[r].route \in HandlerRoutes)
        => /\ ~req[r].raised
           /\ req[r].status \in {200, 500}
           /\ req[r].failed => req[r].status = 500

\* A /c2 request has answered 500 after a query of its with-block failed on the
\* connection it had acquired, and __aexit__ has released that connection.
C9_Witness ==
    \E r \in Requests :
        /\ req[r].pc = "done" /\ req[r].route = "c2"
        /\ req[r].failed /\ req[r].exc /\ req[r].acquired = r
        /\ req[r].status = 500 /\ req[r].log = <<"release">>

\* C5 as stated: over any sequence of migrate runs every change name has been
\* executed at most once and has at most one row in the migration table.
C5_ExecutedAtMostOnce ==
    \A n \in ChangeNames :
        /\ mig.executed[n] <= 1
        /\ Cardinality(RowsOf(mig.rows, n)) <= 1

\* C5: perform_versioned_tasks skips a change whose name is recorded in the
\* migration table, executing nothing and adding no row; over any sequence of
\* migrate runs every change name has at most one row and at most one execution
\* that was not rolled back (a run that fails is rolled back as a whole, and a
\* later run executes its changes again).
C5_CommittedAtMostOnce ==
    [][/\ (/\ mig.pc = "running" /\ mig.queue # <<>>
           /\ RowsOf(mig.txrows, Head(mig.queue).name) # {})
          => /\ mig'.executed = mig.executed
             /\ mig'.txrows = mig.txrows
             /\ mig'.rows = mig.rows
       /\ \A n \in ChangeNames :
             /\ Cardinality(RowsOf(mig'.rows, n)) <= 1
             /\ Cardinality(RowsOf(mig'.txrows, n)) <= 1
             /\ mig'.applied[n] + mig'.pending[n] <= 1]_vars

\* A second run is skipping a change that an earlier run executed, recorded and
\* committed.
C5_Witness ==
    /\ mig.pc = "running" /\ ~mig.dry_run /\ mig.runs >= 2
    /\ \E n \in mig.skipped :
          /\ mig.applied[n] = 1 /\ mig.executed[n] = 1
          /\ Cardinality(RowsOf(mig.rows, n)) = 1

\* C6: a dry run executes no task and records no row, whatever changes were
\* loaded; the changes it printed are still unrecorded when it ends, so that a
\* later run finds them pending.
C6_DryRunChangesNothing ==
    [][((mig.pc = "running" /\ mig.dry_run) \/ (mig'.pc = "running" /\ mig'.dry_run))
       => /\ mig'.executed = mig.executed
          /\ mig'.rows = mig.rows
          /\ mig'.txrows = mig'.rows
          /\ \A n \in mig'.shown : RowsOf(mig'.rows, n) = {}]_vars

\* A run that is not dry is executing, for the first time, a change that the dry
\* run before it had printed.
C6_Witness ==
    /\ mig.pc = "running" /\ ~mig.dry_run
    /\ \E n \in mig.shown : mig.pending[n] = 1 /\ mig.executed[n] = 1

\* The versions load_changes returned, and those of the modules it could load.
LoadedVersions == {load.ret[i].version : i \in 1..Len(load.ret)}

Available ==
    {LoadedVersion(load.listing[i]) :
        i \in {k \in 1..Len(load.listing) : load.listing[k].kind = "py" /\ load.listing[k].attr}}

StrLeq(a, b) == a = b \/ StrLess(a, b)

\* C7: load_changes, given a current version, returns the versions v with
\* previous_version < v <= current_version when previous_version is given and
\* differs from it, the closed interval [previous_version, current_version] when
\* the two are equal, and every v <= current_version when previous_version is
\* None; versions are compared as strings.
C7_Window ==
    (load.pc = "done" /\ load.current_version # NoVersion)
    => LoadedVersions =
         {v \in Available :
            /\ StrLeq(v, load.current_version)
            /\ load.previous_version # NoVersion
                 => IF load.previous_version = load.current_version
                    THEN StrLeq(load.previous_version, v)
                    ELSE StrLess(load.previous_version, v)}

\* The calls of initialize for a name that have returned a manager.
ReturnedFor(name) ==
    {k \in Callers : /\ registry.call[k].pc = "done" /\ ~registry.call[k].raised
                     /\ registry.call[k].name = name}

\* C8: whatever the interleaving of the initialize calls for a name, exactly one
\* pool has been created for the name once a call has returned, never more than
\* one, and all the calls return the same manager.
C8_OnePoolPerName ==
    \A name \in PoolNames :
        /\ Cardinality(registry.created[name]) <= 1
        /\ ReturnedFor(name) # {} => Cardinality(registry.created[name]) = 1
        /\ \A j, k \in ReturnedFor(name) : registry.call[j].ret = registry.call[k].ret

IsDigit(c) == \E d \in 1..Len(Digits) : Digits[d] = c

RECURSIVE DigitRun(_, _)
\* The digits of q from position i on.
DigitRun(q, i) ==
    IF i > Len(q) \/ ~IsDigit(q[i]) THEN <<>>
    ELSE <<q[i]>> \o DigitRun(q, i + 1)

\* The distinct $n placeholders of a query.
Placeholders(q) ==
    {DigitRun(q, i + 1) : i \in {k \in 1..Len(q) : q[k] = "$" /\ DigitRun(q, k + 1) # <<>>}}

RECURSIVE Positional(_, _, _)
\* The query with every %(name)s of the k-th key of params replaced by $k.
Positional(query, i, params) ==
    IF i > Len(query) THEN <<>>
    ELSE LET ks == {k \in 1..Len(params) : MatchesAt(query, i, Pyformat(params[k].key))}
         IN IF ks = {} THEN <<query[i]>> \o Positional(query, i + 1, params)
            ELSE LET k == CHOOSE k \in ks : TRUE
                 IN <<"$">> \o Decimal(k)
                    \o Positional(query, i + Len(Pyformat(params[k].key)), params)

\* C10: pyformat_query_to_native replaces every %(name)s of the k-th key by $k,
\* returns the values in the order of the keys, and returns as many values as the
\* rewritten query has distinct $n placeholders.
C10_ValuesMatchPlaceholders ==
    pyf.pc = "done"
    => /\ pyf.new_query = Positional(pyf.query, 1, pyf.params)
       /\ pyf.field_values = [k \in 1..Len(pyf.params) |-> pyf.params[k].value]
       /\ Len(pyf.field_values) = Cardinality(Placeholders(pyf.new_query))

\* The number of fields up to the j-th whose value is not a Placeholder.
Rank(row, j) == Cardinality({k \in 1..j : row[k].value.kind # "placeholder"})

\* C11: generate_native_insert_query gives $i to the i-th field that is not a
\* Placeholder and puts that field's value at params[i-1]; a Placeholder is
\* inlined as quoted SQL text and takes no position; the column list and the
\* VALUES list have one entry per field, in field order; params has as many
\* elements as the query has $n placeholders, which are $1 .. $len(params).
C11_InsertPositions ==
    (sql.pc = "done" /\ sql.fn = "generate_native_insert_query")
    => LET row == sql.args.row
           expected == [j \in 1..Len(row) |->
                          IF row[j].value.kind = "placeholder"
                          THEN QuotePlaceholder(row[j].value)
                          ELSE <<"$">> \o Decimal(Rank(row, j))]
       IN /\ sql.ret.query =
                <<"I", "N", "S", "E", "R", "T", " ", "I", "N", "T", "O", " ">> \o sql.args.table \o <<" ", "(">>
                \o JoinStr([j \in 1..Len(row) |-> row[j].field], <<",">>)
                \o <<")", " ", "V", "A", "L", "U", "E", "S", " ", "(">> \o JoinStr(expected, <<",">>) \o <<")">>
          /\ Len(sql.ret.params) = Rank(row, Len(row))
          /\ \A j \in 1..Len(row) :
                row[j].value.kind # "placeholder"
                => sql.ret.params[Rank(row, j)] = row[j].value
          /\ Placeholders(sql.ret.query) = {Decimal(i) : i \in 1..Len(sql.ret.params)}
          /\ Cardinality(Placeholders(sql.ret.query)) = Len(sql.ret.params)

\* {"a": Placeholder("f(%(x)s, %(y)s)", {"x": 7, "y": "o'k"}), "b": 7} has given
\* INSERT INTO t (a,b) VALUES (f(7, 'o''k'),$1) with the one parameter 7.
C11_Witness ==
    /\ sql.pc = "done" /\ sql.fn = "generate_native_insert_query"
    /\ Len(sql.args.row) = 2
    /\ sql.args.row[1].value.kind = "placeholder"
    /\ sql.ret.query = <<"I", "N", "S", "E", "R", "T", " ", "I", "N", "T", "O", " ", "t", " ", "(", "a", ",", "b", ")", " ", "V", "A", "L", "U", "E", "S", " ", "(", "f", "(", "7", ",", " ", "'", "o", "'", "'", "k", "'", ")", ",", "$", "1", ")">>
    /\ sql.ret.params = <<IntValue(<<"7">>)>>

\* The first column of every matching row.
FirstColumn(matching) == [k \in 1..Len(matching) |-> matching[k][1]]

\* C12: fetch_value returns a Null instance when the query matches no row, the
\* first column of the first row when it matches one (None for a NULL field),
\* and does not raise for an empty result.
C12_NullForNoRow ==
    (qry.pc = "done" /\ qry.method = "fetch_value" /\ qry.args.answer = "rows")
    => /\ qry.ret.raised = "none"
       /\ qry.ret.value = IF qry.args.matching = <<>> THEN NullValue
                          ELSE qry.args.matching[1][1]

\* C13: fetch_column returns the first column of every row the query matches,
\* in result order: as many elements as matching rows, none when none matches.
C13_OneElementPerRow ==
    (qry.pc = "done" /\ qry.method = "fetch_column" /\ qry.args.answer = "rows")
    => /\ qry.ret.raised = "none"
       /\ qry.ret.value = ListValue(FirstColumn(qry.args.matching))
       /\ Len(qry.ret.value.items) = Len(qry.args.matching)

\* C14: update, delete and delete_and_fetch called with None or an empty
\* mapping as `where` raise UserWarning and hand no statement to the
\* connection.
C14_RefusedWithoutWhere ==
    (/\ qry.pc = "done"
     /\ qry.method \in {"update", "delete", "delete_and_fetch"}
     /\ (~qry.args.where.given \/ qry.args.where.items = <<>>))
    => /\ qry.ret.raised = "UserWarning"
       /\ qry.sent = <<>>

\* delete(table, {}) on an open connection whose table has a row has raised
\* UserWarning.
C14_Witness ==
    /\ qry.pc = "done" /\ qry.method = "delete"
    /\ qry.args.where = WhereArg(TRUE, <<>>)
    /\ qry.args.open /\ qry.args.matching # <<>>
    /\ qry.ret.raised = "UserWarning" /\ qry.sent = <<>>

\* The number of where fields up to the j-th whose value takes a position.
Position(condition, start_counter, j) == start_counter + Rank(condition, j) - 1

\* C15: in a where mapping a scalar value gives 'field = $n' and a tuple or a
\* list gives 'field = ANY($n)'; the conditions are joined with AND in field
\* order.
C15_WhereForms ==
    (sql.pc = "done" /\ sql.fn = "_generate_where_clause")
    => LET c == sql.args.condition
           n(j) == <<"$">> \o Decimal(Position(c, sql.args.start_counter, j))
           cond == [j \in 1..Len(c) |->
                      c[j].field \o
                      (CASE c[j].value.kind = "list" -> <<" ", "=", " ", "A", "N", "Y", "(">> \o n(j) \o <<")">>
                         [] c[j].value.kind = "placeholder" ->
                               <<" ", "=", " ">> \o QuotePlaceholder(c[j].value)
                         [] OTHER -> <<" ", "=", " ">> \o n(j))]
       IN sql.ret.clause = <<"W", "H", "E", "R", "E", " ">> \o JoinStr(cond, <<" ", "A", "N", "D", " ">>)

\* The value an operator of the vocabulary is meant for: a list for in and not
\* in, two bounds for between, a range for overlap and not overlap.
Fits(value, op) ==
    IF op \in {<<"i", "n">>, <<"n", "o", "t", " ", "i", "n">>} THEN value.kind = "list"
    ELSE IF op = <<"b", "e", "t", "w", "e", "e", "n">> THEN value.kind = "list" /\ Len(value.items) >= 2
    ELSE IF op \in {<<"o", "v", "e", "r", "l", "a", "p">>, <<"n", "o", "t", " ", "o", "v", "e", "r", "l", "a", "p">>}
    THEN value.kind = "str" /\ Contains(value.text, <<"r", "a", "n", "g", "e", "(">>)
    ELSE value.kind # "list"

NonEmpty(v) == v.kind = "list" /\ Len(v.items) > 0

\* An offset or limit that is neither None nor 0.
NonZero(v) == v.kind = "int" /\ v.text # <<"0">>

\* C20: generate_select emits SELECT columns FROM table, then WHERE, GROUP BY,
\* HAVING, ORDER BY and OFFSET/LIMIT in that order, each exactly when its
\* argument is not empty, the WHERE and HAVING conditions joined by AND in
\* input order, and OFFSET o LIMIT l exactly when offset and limit are both
\* neither None nor 0; find() with its defaults offset=0, limit=1 emits no
\* LIMIT.
C20_SelectClauses ==
    (sql.fn \in {"generate_select", "find"} /\ sql.pc = "done") =>
        LET a == sql.args
            offset == IF sql.fn = "find" /\ a.offset = Omitted THEN IntValue(<<"0">>) ELSE a.offset
            limit == IF sql.fn = "find" /\ a.limit = Omitted THEN IntValue(<<"1">>) ELSE a.limit
            opt(present, clause) == IF present THEN clause ELSE <<>>
            conds(v) == JoinStr([k \in 1..Len(v.items) |-> ToSql(v.items[k]).text], <<" ", "A", "N", "D", " ">>)
            pairs(v) == JoinStr([k \in 1..Len(v.items) |->
                                    v.items[k][1] \o <<" ">> \o v.items[k][2]], <<",", " ">>)
            source == IF a.table.steps = <<>> THEN a.table.name ELSE JoinedToSql(a.table.steps)
        IN
        /\ sql.ret.raised = "none"
        /\ sql.ret.text =
             <<"S", "E", "L", "E", "C", "T", " ">> \o JoinStr(a.columns, <<",", " ">>) \o <<" ", "F", "R", "O", "M", " ">> \o source
             \o opt(NonEmpty(a.where), <<" ", "W", "H", "E", "R", "E", " ">> \o conds(a.where))
             \o opt(NonEmpty(a.group_by), <<" ", "G", "R", "O", "U", "P", " ", "B", "Y", " ">> \o JoinStr(a.group_by.items, <<",", " ">>))
             \o opt(NonEmpty(a.group_filter), <<" ", "H", "A", "V", "I", "N", "G", " ">> \o conds(a.group_filter))
             \o opt(NonEmpty(a.order_by), <<" ", "O", "R", "D", "E", "R", " ", "B", "Y", " ">> \o pairs(a.order_by))
             \o opt(NonZero(offset) /\ NonZero(limit),
                    <<" ", "O", "F", "F", "S", "E", "T", " ">> \o offset.text \o <<" ", "L", "I", "M", "I", "T", " ">> \o limit.text)
        /\ (sql.fn = "find" /\ a.offset = Omitted /\ a.limit = Omitted) =>
               ~Contains(sql.ret.text, <<"L", "I", "M", "I", "T">>)

C20_Witness ==
    /\ sql.fn = "generate_select"
    /\ sql.pc = "done"
    /\ NonEmpty(sql.args.where) /\ Len(sql.args.where.items) = 2
    /\ NonEmpty(sql.args.group_by)
    /\ NonEmpty(sql.args.group_filter)
    /\ NonEmpty(sql.args.order_by)
    /\ Contains(sql.ret.text, <<" ", "W", "H", "E", "R", "E", " ", "a", " ", ">", " ", "7", " ", "A", "N", "D", " ", "b", " ", "=", " ", "'", "o", "'", "'", "k", "'", " ", "G", "R", "O", "U", "P", " ", "B", "Y", " ", "a", ",", " ", "b", " ", "H", "A", "V", "I", "N", "G", " ", "a", " ", ">", " ", "7", " ", "O", "R", "D", "E", "R", " ", "B", "Y", " ", "a", " ", "A", "S", "C", ",", " ", "b", " ", "D", "E", "S", "C", " ", "O", "F", "F", "S", "E", "T", " ", "2", " ", "L", "I", "M", "I", "T", " ", "1">>)

\* Request r is the only one that has arrived: what happened to the session
\* and to its connection is its own doing.
Alone(r) == \A q \in Requests : q # r => req[q].pc = "idle"

\* C17: on every path through supervise.__aenter__ and __aexit__ a connection
\* acquired from the pool that is still open at exit is handed to pool.release
\* exactly once: never zero times and never twice.
C17_ReleasedExactlyOnce ==
    \A r \in Requests :
        (/\ req[r].watched /\ req[r].pc = "done" /\ req[r].route = "sup"
         /\ req[r].acquired = r /\ req[r].openAtExit
         /\ Alone(r))
        => proxy[r].relCalls = 1

\* C18: after supervise.__aexit__ has returned or raised, session.connection
\* and session.transaction are None on every path, so that the session can be
\* started again.
C18_ClearedAfterExit ==
    \A r \in Requests :
        (/\ req[r].watched /\ req[r].pc = "done" /\ req[r].route = "sup"
         /\ req[r].acquired = r
         /\ Alone(r))
        => /\ session.connection = None
           /\ session.transaction = None

\* C19: when __aexit__ of supervise finds the connection closed, on normal exit
\* of a transactional block it does not commit, does not release the connection,
\* clears the session and raises InterfaceError; on exceptional exit
\* (transactional or not) it neither rolls back nor releases, clears the session
\* and lets the body's exception propagate.
C19_ClosedAtExit ==
    [][\A r \in Requests :
          (/\ ~req[r].closedAtExit /\ req'[r].closedAtExit
           /\ req'[r].route = "sup"
           /\ req'[r].exc \/ req'[r].transactional)
          => /\ req'[r].pc = "done"
             /\ req'[r].raised
             /\ req'[r].log = <<>>
             /\ \A p \in Proxies :
                   /\ proxy'[p].relCalls = proxy[p].relCalls
                   /\ proxy'[p].state = "released" => proxy[p].state = "released"
             /\ tx' = tx
             /\ session'.connection = None
             /\ session'.transaction = None]_vars

\* A transactional block whose body ended normally has found its connection
\* closed: InterfaceError has left __aexit__, nothing was committed, the session
\* is cleared and the pool has not been given the connection back.
C19_Witness ==
    \E r \in Requests :
        /\ req[r].pc = "done" /\ req[r].route = "sup"
        /\ req[r].transactional /\ ~req[r].exc
        /\ req[r].closedAtExit /\ req[r].raised
        /\ req[r].log = <<>>
        /\ req[r].acquired = r /\ proxy[r].state = "held" /\ proxy[r].relCalls = 0
        /\ session.connection = None /\ session.transaction = None

=============================================================================
